---- MODULE Spec2Model ----
(***************************************************************************)
(* The Poincare-Birkhoff-Witt basis of the universal enveloping algebra of *)
(* a Lie algebra (sage/algebras/lie_algebras/poincare_birkhoff_witt.py).   *)
(*                                                                         *)
(* A monomial of the indexed free abelian monoid is an exponent vector     *)
(* over the generator indices 1..n; an element of a free module is a       *)
(* function from a finite set of basis keys to its NONZERO coefficients    *)
(* (the dictionary of monomial coefficients).                              *)
(***************************************************************************)
EXTENDS Integers, Sequences, FiniteSets, TLC

\* Bound on the total degree of the monomials a, b, c drawn as inputs.
MaxDeg == 4
\* Bound on the absolute value of the coefficients of a Lie algebra element
\* drawn as an input of the lift map.
MaxCoef == 1

\* Bound on the total degree of the monomials a, b, c that are multiplied
\* and coerced into another PBW basis.
MaxCoerceDeg == 3
\* Bound on the total degree of the monomials a, b whose product is given to
\* the preimage of the lift map.
MaxLiftDeg == 3
\* Bound on the number of algebras that calls of GroupAlgebra construct.
MaxAlgebras == 2
\* Bound on the total degree of the monomials a, b whose product is run
\* call by call.
MaxRunDeg == 4
\* Bound on the number of nested calls of product_on_basis in a run.
MaxDepth == 12

VARIABLES
    g,          \* self._g: the underlying Lie algebra
    basis_key,  \* self._basis_key: generator index -> sorting key
    a, b, c,    \* basis monomials given to the operations
    op,         \* the operation applied last ("init" before any)
    arg,        \* the extra input of that operation
    res, res2,  \* what the operation returned
    stack,      \* the calls of product_on_basis in progress, outermost first
    ninv,       \* the number of times the commutator branch was entered
    depth       \* the largest number of nested calls so far

run == <<stack, ninv, depth>>

vars == <<g, basis_key, a, b, c, op, arg, res, res2, stack, ninv, depth>>

RECURSIVE product_on_basis(_, _, _)
RECURSIVE Mul(_, _, _)
RECURSIVE SumOver(_, _)
RECURSIVE SortKeys(_, _)

----------------------------------------------------------------------------
(* The Lie algebras of the doctests, by their structure coefficients.      *)

LieAlgebras == {"sl2", "cross_product", "gl2"}

\* The number of basis elements of the Lie algebra.
Dim(L) == IF L = "gl2" THEN 4 ELSE 3

Gens(L) == 1 .. Dim(L)

\* three_dimensional_by_rank(QQ, 3, names=['E','F','H']): E=1, F=2, H=3 with
\* [E,F] = H, [H,E] = 2E, [H,F] = -2F.
Sl2Bracket(i, j) ==
    CASE i = 1 /\ j = 2 -> (3 :> 1)
      [] i = 2 /\ j = 1 -> (3 :> -1)
      [] i = 3 /\ j = 1 -> (1 :> 2)
      [] i = 1 /\ j = 3 -> (1 :> -2)
      [] i = 3 /\ j = 2 -> (2 :> -2)
      [] i = 2 /\ j = 3 -> (2 :> 2)
      [] OTHER -> <<>>

\* cross_product(QQ): X=1, Y=2, Z=3 with [X,Y] = Z, [Y,Z] = X, [Z,X] = Y.
CrossBracket(i, j) ==
    CASE i = 1 /\ j = 2 -> (3 :> 1)
      [] i = 2 /\ j = 1 -> (3 :> -1)
      [] i = 2 /\ j = 3 -> (1 :> 1)
      [] i = 3 /\ j = 2 -> (1 :> -1)
      [] i = 3 /\ j = 1 -> (2 :> 1)
      [] i = 1 /\ j = 3 -> (2 :> -1)
      [] OTHER -> <<>>

\* LieAlgebra(associative=MatrixSpace(QQ, 2, 2)): index i is the matrix unit
\* in row (i-1) \div 2 and column (i-1) % 2, and [x, y] = x*y - y*x.
Gl2Bracket(i, j) ==
    LET r1 == (i - 1) \div 2
        c1 == (i - 1) % 2
        r2 == (j - 1) \div 2
        c2 == (j - 1) % 2
        xy == IF c1 = r2 THEN 2 * r1 + c2 + 1 ELSE 0
        yx == IF c2 = r1 THEN 2 * r2 + c1 + 1 ELSE 0
        D  == {k \in {xy, yx} : k # 0 /\ xy # yx}
    IN  [k \in D |-> IF k = xy THEN 1 ELSE -1]

\* self._g.monomial(i).bracket(self._g.monomial(j)), as the dictionary of
\* monomial coefficients of the result.
bracket(L, i, j) ==
    CASE L = "sl2" -> Sl2Bracket(i, j)
      [] L = "cross_product" -> CrossBracket(i, j)
      [] L = "gl2" -> Gl2Bracket(i, j)

----------------------------------------------------------------------------
(* Free module arithmetic (CombinatorialFreeModule).  An operand that is   *)
(* read more than once is first bound by a set constructor, v \in {x}, so  *)
(* that it is evaluated once wherever the operator is used.                *)

Zero == <<>>

Coef(x, m) == IF m \in DOMAIN x THEN x[m] ELSE 0

\* self.monomial(m)
monomial(m) == [k \in {m} |-> 1]

\* x + y: coefficients are added and the zero ones removed.
Add(x, y) ==
    CHOOSE r \in {[m \in {k \in (DOMAIN xv) \cup (DOMAIN yv) :
                            Coef(xv, k) + Coef(yv, k) # 0}
                     |-> Coef(xv, m) + Coef(yv, m)] : xv \in {x}, yv \in {y}} : TRUE

\* c * x
Scale(k, x) ==
    CHOOSE r \in {IF kv = 0 THEN Zero ELSE [m \in DOMAIN xv |-> kv * xv[m]] :
                  kv \in {k}, xv \in {x}} : TRUE

\* x - y
Sub(x, y) == Add(x, Scale(-1, y))

\* The sum of f[i] over i in S.
SumOver(S, f) ==
    IF S = {} THEN Zero
    ELSE CHOOSE r \in {Add(f[i], SumOver(S \ {i}, f)) :
                       i \in {CHOOSE j \in S : TRUE}} : TRUE

----------------------------------------------------------------------------
(* The indexed free abelian monoid of the monomials.                       *)

\* I.gen(x)
gen(L, x) == [i \in Gens(L) |-> IF i = x THEN 1 ELSE 0]

\* m * n in the monoid: exponents add.
MonoidMul(m, n) == [i \in DOMAIN m |-> m[i] + n[i]]

\* m // n in the monoid: exponents subtract.
MonoidDiv(m, n) == [i \in DOMAIN m |-> m[i] - n[i]]

\* m ** e
MonoidPow(m, e) == [i \in DOMAIN m |-> e * m[i]]

\* m.support(): the generators with a positive exponent.
support(m) == {i \in DOMAIN m : m[i] > 0}

\* m.length(): the sum of the exponents.
length(m) ==
    LET RECURSIVE S(_)
        S(i) == IF i = 0 THEN 0 ELSE m[i] + S(i - 1)
    IN  S(Len(m))

\* The monomials in n generators of a given length.
RECURSIVE MonomialsOfLength(_, _)
MonomialsOfLength(n, d) ==
    IF n = 0 THEN (IF d = 0 THEN {<<>>} ELSE {})
    ELSE UNION {{Append(m, e) : m \in MonomialsOfLength(n - 1, d - e)} : e \in 0 .. d}

----------------------------------------------------------------------------
(* PoincareBirkhoffWittBasis                                               *)

\* The PBW basis object.
PBW(L, key) == [g |-> L, basis_key |-> key]

\* _monoid_key(x) for an item x = (generator, exponent) of a monomial.
monoid_key(self, x) == self.basis_key[x[1]]

\* The generators of S in increasing order of their keys.
SortKeys(self, S) ==
    IF S = {} THEN <<>>
    ELSE LET i == CHOOSE j \in S :
                     \A k \in S : monoid_key(self, <<j, 0>>) <= monoid_key(self, <<k, 0>>)
         IN  <<i>> \o SortKeys(self, S \ {i})

\* m._sorted_items(): the (generator, exponent) pairs sorted by _monoid_key.
sorted_items(self, m) ==
    LET s == SortKeys(self, support(m))
    IN  [k \in 1 .. Len(s) |-> <<s[k], m[s[k]]>>]

\* m.leading_support(): the generator of the first sorted item.
leading_support(self, m) ==
    CHOOSE i \in support(m) :
        \A j \in support(m) : monoid_key(self, <<i, m[i]>>) <= monoid_key(self, <<j, m[j]>>)

\* m.trailing_support(): the generator of the last sorted item.
trailing_support(self, m) ==
    CHOOSE i \in support(m) :
        \A j \in support(m) : monoid_key(self, <<j, m[j]>>) <= monoid_key(self, <<i, m[i]>>)

\* m.to_word_list(): the generators of m, each as often as its exponent.
to_word_list(self, m) ==
    LET s == sorted_items(self, m)
        RECURSIVE W(_, _)
        W(k, e) == IF k > Len(s) THEN <<>>
                   ELSE IF e = 0 THEN W(k + 1, IF k < Len(s) THEN s[k + 1][2] ELSE 0)
                   ELSE <<s[k][1]>> \o W(k, e - 1)
    IN  IF Len(s) = 0 THEN <<>> ELSE W(1, s[1][2])

\* _monomial_key(x) = (-len(x), [self._basis_key(l) for l in x.to_word_list()])
monomial_key(self, m) ==
    LET w == to_word_list(self, m)
    IN  <<-length(m), [k \in 1 .. Len(w) |-> self.basis_key[w[k]]]>>

\* u < v for two lists of integers, as Python compares lists.
ListLess(u, v) ==
    \E k \in 1 .. Len(v) :
        /\ k <= Len(u) + 1
        /\ \A j \in 1 .. k - 1 : u[j] = v[j]
        /\ k = Len(u) + 1 \/ u[k] < v[k]

\* k1 < k2 for two keys of monomials, as Python compares tuples.
KeyLess(k1, k2) == k1[1] < k2[1] \/ (k1[1] = k2[1] /\ ListLess(k1[2], k2[2]))

\* The first monomial of the nonempty set S in the order of _monomial_key.
first_monomial(self, S) ==
    CHOOSE m \in S : \A n \in S \ {m} : KeyLess(monomial_key(self, m), monomial_key(self, n))

\* one_basis(): the identity of the monoid.
one_basis(self) == [i \in Gens(self.g) |-> 0]

\* degree_on_basis counting the generators of m, not their exponents.
degree_on_basis_support_size(self, m) == Cardinality(support(m))

\* degree_on_basis(m)
degree_on_basis(self, m) == length(m)

\* in_order with equal generators taken for an inversion.
in_order_strict(self, trail, lead) == self.basis_key[trail] < self.basis_key[lead]

\* in_order with the comparison the other way round.
in_order_flipped(self, trail, lead) == self.basis_key[trail] >= self.basis_key[lead]

\* Line 372: the trailing generator of lhs does not come after the leading
\* generator of rhs.
in_order(self, trail, lead) == self.basis_key[trail] <= self.basis_key[lead]

\* Line 381: self.sum_of_terms((I.gen(t), c) for t, c in mc.items())
sum_of_terms(self, mc) ==
    SumOver(DOMAIN mc, [t \in DOMAIN mc |-> Scale(mc[t], monomial(gen(self.g, t)))])

\* commutator with the coefficients of the bracket forgotten.
commutator_unit_coefficients(self, trail, lead) ==
    LET mc == bracket(self.g, trail, lead)
    IN  Add(sum_of_terms(self, [t \in DOMAIN mc |-> 1]),
            monomial(MonoidMul(gen(self.g, lead), gen(self.g, trail))))

\* commutator with the bracket taken the other way round: xy = yx + [y, x].
commutator_swapped_bracket(self, trail, lead) ==
    LET mc == bracket(self.g, lead, trail)
    IN  Add(sum_of_terms(self, mc),
            monomial(MonoidMul(gen(self.g, lead), gen(self.g, trail))))

\* commutator without the swapped monomial: xy = [x, y].
commutator_no_swap(self, trail, lead) ==
    sum_of_terms(self, bracket(self.g, trail, lead))

\* Lines 377-382: xy = yx + [x, y] for x = trail > y = lead.
commutator(self, trail, lead) ==
    LET mc == bracket(self.g, trail, lead)
        terms == sum_of_terms(self, mc)
    IN  Add(terms, monomial(MonoidMul(gen(self.g, lead), gen(self.g, trail))))

\* x + y with the coefficients that cancel kept as zeros.
AddKeepZeros(x, y) ==
    [m \in (DOMAIN x) \cup (DOMAIN y) |-> Coef(x, m) + Coef(y, m)]

RECURSIVE SumOverKeepZeros(_, _)
SumOverKeepZeros(S, f) ==
    IF S = {} THEN Zero
    ELSE LET i == CHOOSE j \in S : TRUE
         IN  AddKeepZeros(f[i], SumOverKeepZeros(S \ {i}, f))

\* product_on_basis accumulating its last product without removing the
\* terms that cancel.
product_on_basis_keep_zeros(self, lhs, rhs) ==
    IF lhs = one_basis(self) THEN monomial(rhs)
    ELSE IF rhs = one_basis(self) THEN monomial(lhs)
    ELSE LET trail == trailing_support(self, lhs)
             lead  == leading_support(self, rhs)
         IN  IF in_order(self, trail, lead)
             THEN monomial(MonoidMul(lhs, rhs))
             ELSE LET x == Mul(self, monomial(MonoidDiv(lhs, gen(self.g, trail))),
                               commutator(self, trail, lead))
                      r == MonoidDiv(rhs, gen(self.g, lead))
                  IN  SumOverKeepZeros(DOMAIN x, [m \in DOMAIN x |->
                          Scale(x[m], product_on_basis(self, m, r))])

\* product_on_basis returning its identity operand in the first base case.
product_on_basis_swapped_base(self, lhs, rhs) ==
    IF lhs = one_basis(self) THEN monomial(lhs)
    ELSE IF rhs = one_basis(self) THEN monomial(lhs)
    ELSE LET trail == trailing_support(self, lhs)
             lead  == leading_support(self, rhs)
         IN  IF in_order(self, trail, lead)
             THEN monomial(MonoidMul(lhs, rhs))
             ELSE Mul(self,
                      Mul(self, monomial(MonoidDiv(lhs, gen(self.g, trail))),
                          commutator(self, trail, lead)),
                      monomial(MonoidDiv(rhs, gen(self.g, lead))))

product_on_basis(self, lhs, rhs) ==
    IF lhs = one_basis(self) THEN monomial(rhs)
    ELSE IF rhs = one_basis(self) THEN monomial(lhs)
    ELSE LET trail == trailing_support(self, lhs)
             lead  == leading_support(self, rhs)
         IN  IF in_order(self, trail, lead)
             THEN monomial(MonoidMul(lhs, rhs))
             ELSE Mul(self,
                      Mul(self, monomial(MonoidDiv(lhs, gen(self.g, trail))),
                          commutator(self, trail, lead)),
                      monomial(MonoidDiv(rhs, gen(self.g, lead))))

\* x * y: the bilinear extension of product_on_basis.
Mul(self, x, y) ==
    LET P == (DOMAIN x) \X (DOMAIN y)
    IN  SumOver(P, [p \in P |->
                      Scale(x[p[1]] * y[p[2]], product_on_basis(self, p[1], p[2]))])

----------------------------------------------------------------------------
(* _coerce_map_from_: the maps into the PBW basis self.                    *)

\* self.prod(factors): the factors multiplied from left to right, and the
\* result multiplied by self.one() on the left.
prod(self, factors) ==
    LET RECURSIVE P(_)
        P(k) == IF k = 1 THEN factors[1] ELSE Mul(self, P(k - 1), factors[k])
    IN  IF Len(factors) = 0 THEN monomial(one_basis(self))
        ELSE Mul(self, monomial(one_basis(self)), P(Len(factors)))

\* basis_function with the items of x sorted by the key of self, not of R.
coerce_basis_function_own_order(self, R, x) ==
    LET s == sorted_items(self, x)
    IN  prod(self, [k \in 1 .. Len(s) |->
                      monomial(MonoidPow(gen(self.g, s[k][1]), s[k][2]))])

\* Lines 262-263: basis_function(x) of the map from the PBW basis R of the
\* same Lie algebra.
coerce_basis_function(self, R, x) ==
    LET s == sorted_items(R, x)
    IN  prod(self, [k \in 1 .. Len(s) |->
                      monomial(MonoidPow(gen(self.g, s[k][1]), s[k][2]))])

\* Line 265: R.module_morphism(basis_function, codomain=self) applied to x.
coerce(self, R, x) ==
    SumOver(DOMAIN x, [m \in DOMAIN x |-> Scale(x[m], coerce_basis_function(self, R, m))])

\* Line 253: basis_function(x) of the lift map from the Lie algebra.
lift_basis_function(self, x) == monomial(gen(self.g, x))

\* Lines 256-258: the lift map applied to the Lie algebra element v.
lift(self, v) ==
    SumOver(DOMAIN v, [t \in DOMAIN v |-> Scale(v[t], lift_basis_function(self, t))])

\* None, which is not a generator (generators are 1 .. Dim(L)).
None == 0

\* inv_supp without the test of the length for a monomial that is not 1.
inv_supp_nonempty(self, m) ==
    IF length(m) = 0 THEN None ELSE leading_support(self, m)

\* Line 254: inv_supp(m)
inv_supp(self, m) ==
    IF length(m) # 1 THEN None ELSE leading_support(self, m)

\* The dominant item of a nonzero element: its last monomial in the order
\* of _monomial_key.
dominant_support(self, f) ==
    CHOOSE m \in DOMAIN f :
        \A n \in DOMAIN f \ {m} : KeyLess(monomial_key(self, n), monomial_key(self, m))

ValueError(msg) == [ok |-> FALSE, error |-> msg]

\* The preimage of the PBW element f under the lift map, which is upper
\* unitriangular with inverse_on_support=inv_supp: the dominant term of the
\* remainder is taken off until nothing remains.
RECURSIVE preimage_loop(_, _, _)
preimage_loop(self, remainder, out) ==
    IF remainder = Zero THEN [ok |-> TRUE, value |-> out]
    ELSE LET j == dominant_support(self, remainder)
             k == remainder[j]
             j_preimage == inv_supp(self, j)
         IN  IF j_preimage = None THEN ValueError("is not in the image")
             ELSE LET s == lift_basis_function(self, j_preimage)
                  IN  IF j \notin DOMAIN s THEN ValueError("is not triangular")
                      ELSE preimage_loop(self, Sub(remainder, Scale(k, s)),
                                         Add(out, [t \in {j_preimage} |-> k]))

\* L(f) for a PBW element f
preimage(self, f) == preimage_loop(self, f, Zero)

----------------------------------------------------------------------------
(* The state machine: inputs are drawn at the start, and each action       *)
(* applies one operation to them.                                          *)

\* g._basis_key, the default key: the position in the basis.
default_key(L) == [i \in Gens(L) |-> i]

\* neg_key of the doctests: the reverse order.
neg_key(L) == [i \in Gens(L) |-> -i]

\* The basis keys tried: every total order of three generators, and the
\* default order and its reverse for four.
Orders(L) ==
    IF Dim(L) = 3
    THEN {k \in [Gens(L) -> Gens(L)] : \A i, j \in Gens(L) : i # j => k[i] # k[j]}
    ELSE {default_key(L), neg_key(L)}

Monomials(L, d) == UNION {MonomialsOfLength(Dim(L), e) : e \in 0 .. d}

Init ==
    /\ g \in LieAlgebras
    /\ basis_key \in Orders(g)
    /\ a \in Monomials(g, MaxDeg)
    /\ b \in Monomials(g, MaxDeg - length(a))
    /\ c \in Monomials(g, MaxDeg - length(a) - length(b))
    /\ op = "init"
    /\ arg = <<>>
    /\ res = Zero
    /\ res2 = Zero
    /\ stack = <<>>
    /\ ninv = 0
    /\ depth = 0

self == PBW(g, basis_key)

\* product_on_basis(a, b)
ProductOnBasis ==
    /\ op = "init"
    /\ op' = "product_on_basis"
    /\ res' = product_on_basis(self, a, b)
    /\ res2' = Zero
    /\ UNCHANGED <<g, basis_key, a, b, c, arg, run>>

\* x*y - y*x for the basis elements x, y indexed by a, b
Commutator ==
    /\ op = "init"
    /\ op' = "commutator"
    /\ res' = Sub(Mul(self, monomial(a), monomial(b)),
                 Mul(self, monomial(b), monomial(a)))
    /\ res2' = Zero
    /\ UNCHANGED <<g, basis_key, a, b, c, arg, run>>

\* (x*y)*z and x*(y*z) for the basis elements x, y, z indexed by a, b, c
Associate ==
    /\ op = "init"
    /\ op' = "associate"
    /\ res' = Mul(self, Mul(self, monomial(a), monomial(b)), monomial(c))
    /\ res2' = Mul(self, monomial(a), Mul(self, monomial(b), monomial(c)))
    /\ UNCHANGED <<g, basis_key, a, b, c, arg, run>>

Next == ProductOnBasis \/ Commutator \/ Associate

Spec == Init /\ [][Next]_vars

----------------------------------------------------------------------------
(* One call product_on_basis(a, b) run call by call.  A frame is one call  *)
(* of product_on_basis: after the commutator branch is entered it holds    *)
(* the two products of line 383, first lhs' * terms (phase "left") and     *)
(* then its result times rhs' (phase "right"), each a loop over the terms  *)
(* still to multiply (todo) that adds coef * product_on_basis(...) to acc. *)
(* The terms are taken in one fixed order; the sum does not depend on it. *)

Frame(lhs, rhs, coef) ==
    [lhs |-> lhs, rhs |-> rhs, coef |-> coef, phase |-> "enter",
     lrest |-> lhs, rrest |-> rhs, todo |-> Zero, acc |-> Zero]

InitRun ==
    /\ g \in LieAlgebras
    /\ basis_key \in Orders(g)
    /\ a = one_basis(self)
    /\ b = one_basis(self)
    /\ c = one_basis(self)
    /\ op = "init"
    /\ arg = <<>>
    /\ res = Zero
    /\ res2 = Zero
    /\ stack = <<>>
    /\ ninv = 0
    /\ depth = 0

\* The caller enters product_on_basis(lhs, rhs).
Enter ==
    /\ op = "init"
    /\ \E lhs \in Monomials(g, MaxRunDeg) :
         \E rhs \in Monomials(g, MaxRunDeg - length(lhs)) :
            /\ a' = lhs
            /\ b' = rhs
            /\ stack' = <<Frame(lhs, rhs, 1)>>
    /\ op' = "call"
    /\ depth' = 1
    /\ UNCHANGED <<g, basis_key, c, arg, res, res2, ninv>>

top == stack[Len(stack)]

\* Lines 370-371: trail and lead of the call on top of the stack.
top_trail == trailing_support(self, top.lhs)

top_lead == leading_support(self, top.rhs)

\* The call on top of the stack returns v to its caller.
Deliver(v) ==
    IF Len(stack) = 1
    THEN /\ stack' = <<>>
         /\ op' = "returned"
         /\ res' = v
    ELSE /\ stack' = [k \in 1 .. Len(stack) - 1 |->
                        IF k = Len(stack) - 1
                        THEN [stack[k] EXCEPT !.acc = Add(@, Scale(top.coef, v))]
                        ELSE stack[k]]
         /\ UNCHANGED <<op, res>>

\* Lines 364-373: a base case, or the operands are in order.
Return ==
    /\ op = "call" /\ top.phase = "enter"
    /\ \/ top.lhs = one_basis(self) /\ Deliver(monomial(top.rhs))
       \/ top.lhs # one_basis(self) /\ top.rhs = one_basis(self)
          /\ Deliver(monomial(top.lhs))
       \/ /\ top.lhs # one_basis(self) /\ top.rhs # one_basis(self)
          /\ in_order(self, top_trail, top_lead)
          /\ Deliver(monomial(MonoidMul(top.lhs, top.rhs)))
    /\ UNCHANGED <<g, basis_key, a, b, c, arg, res2, ninv, depth>>

\* Lines 375-382: an inversion; the commutator is created.
Resolve ==
    /\ op = "call" /\ top.phase = "enter"
    /\ top.lhs # one_basis(self) /\ top.rhs # one_basis(self)
    /\ \E trail \in {top_trail}, lead \in {top_lead} :
          /\ ~in_order(self, trail, lead)
          /\ stack' = [stack EXCEPT ![Len(stack)] =
                          [@ EXCEPT !.phase = "left",
                                    !.lrest = MonoidDiv(top.lhs, gen(g, trail)),
                                    !.rrest = MonoidDiv(top.rhs, gen(g, lead)),
                                    !.todo = commutator(self, trail, lead)]]
    /\ ninv' = ninv + 1
    /\ UNCHANGED <<g, basis_key, a, b, c, op, arg, res, res2, depth>>

\* The next term of the loop of the call on top.
next_term == CHOOSE t \in DOMAIN top.todo : TRUE

\* The call on top takes the term t out of todo and calls
\* product_on_basis(lhs, rhs) for it.
Call(t, lhs, rhs) ==
    /\ Len(stack) < MaxDepth
    /\ stack' = Append([stack EXCEPT ![Len(stack)].todo =
                            [m \in DOMAIN top.todo \ {t} |-> top.todo[m]]],
                       Frame(lhs, rhs, top.todo[t]))
    /\ depth' = IF Len(stack) + 1 > depth THEN Len(stack) + 1 ELSE depth

\* Line 383, self.monomial(lhs // trail) * terms: the next term of terms.
CallLeft ==
    /\ op = "call" /\ top.phase = "left" /\ DOMAIN top.todo # {}
    /\ Call(next_term, top.lrest, next_term)
    /\ UNCHANGED <<g, basis_key, a, b, c, op, arg, res, res2, ninv>>

\* Line 383: the first product is done, the second one starts with it.
TurnRight ==
    /\ op = "call" /\ top.phase = "left" /\ DOMAIN top.todo = {}
    /\ stack' = [stack EXCEPT ![Len(stack)] =
                    [@ EXCEPT !.phase = "right", !.todo = top.acc, !.acc = Zero]]
    /\ UNCHANGED <<g, basis_key, a, b, c, op, arg, res, res2, ninv, depth>>

\* Line 383, (...) * self.monomial(rhs // lead): the next term of the first
\* product.
CallRight ==
    /\ op = "call" /\ top.phase = "right" /\ DOMAIN top.todo # {}
    /\ Call(next_term, next_term, top.rrest)
    /\ UNCHANGED <<g, basis_key, a, b, c, op, arg, res, res2, ninv>>

\* Line 383: the second product is done and is returned.
Finish ==
    /\ op = "call" /\ top.phase = "right" /\ DOMAIN top.todo = {}
    /\ Deliver(top.acc)
    /\ UNCHANGED <<g, basis_key, a, b, c, arg, res2, ninv, depth>>

NextRun == Enter \/ Return \/ Resolve \/ CallLeft \/ TurnRight \/ CallRight \/ Finish

\* The interpreter keeps running the one thread of the computation.
SpecRun == InitRun /\ [][NextRun]_vars /\ WF_vars(NextRun)

----------------------------------------------------------------------------
(* Coercion between two PBW bases of the same Lie algebra.                 *)

InitIdle ==
    /\ g \in LieAlgebras
    /\ basis_key \in Orders(g)
    /\ a = one_basis(self)
    /\ b = one_basis(self)
    /\ c = one_basis(self)
    /\ op = "init"
    /\ arg = <<>>
    /\ res = Zero
    /\ res2 = Zero
    /\ stack = <<>>
    /\ ninv = 0
    /\ depth = 0

\* For the elements x = a*b and y = c of self and the PBW basis P2 with the
\* basis key key2: P2(x*y) and P2(x)*P2(y).
Coerce ==
    /\ op = "init"
    /\ \E key2 \in Orders(g) :
       \E m1 \in Monomials(g, MaxCoerceDeg) :
       \E m2 \in Monomials(g, MaxCoerceDeg - length(m1)) :
       \E m3 \in Monomials(g, MaxCoerceDeg - length(m1) - length(m2)) :
          LET P2 == PBW(g, key2)
              x == product_on_basis(self, m1, m2)
              y == monomial(m3)
          IN  /\ a' = m1 /\ b' = m2 /\ c' = m3
              /\ arg' = key2
              /\ res' = coerce(P2, self, Mul(self, x, y))
              /\ res2' = Mul(P2, coerce(P2, self, x), coerce(P2, self, y))
    /\ op' = "coerce"
    /\ UNCHANGED <<g, basis_key, run>>

NextCoerce == Coerce

SpecCoerce == InitIdle /\ [][NextCoerce]_vars

\* C9: the coercion from the PBW basis self to the PBW basis P2 of the same
\* Lie algebra with another basis key preserves multiplication:
\* P2(x*y) = P2(x)*P2(y).
C9_CoercionPreservesProduct == op = "coerce" => res = res2

\* C9 witness: PBW2(E*F) = PBW2(E)*PBW2(F) = F*E + H in sl2 with the reverse
\* order.
C9_Witness ==
    /\ g = "sl2" /\ basis_key = default_key("sl2") /\ arg = <<3, 2, 1>>
    /\ op = "coerce"
    /\ a = <<1, 0, 0>> /\ b = <<0, 0, 0>> /\ c = <<0, 1, 0>>
    /\ res = (<<1, 1, 0>> :> 1) @@ (<<0, 0, 1>> :> 1)
    /\ res2 = res

----------------------------------------------------------------------------
(* The lift map from the Lie algebra and its preimage.                     *)

\* The elements of the Lie algebra with coefficients up to MaxCoef.
LieElements(L) ==
    {[t \in {i \in Gens(L) : v[i] # 0} |-> v[t]] : v \in [Gens(L) -> -MaxCoef .. MaxCoef]}

\* pbw(v) for a Lie algebra element v
Lift ==
    /\ op = "init"
    /\ \E v \in LieElements(g) :
          /\ arg' = v
          /\ res' = lift(self, v)
    /\ op' = "lift"
    /\ UNCHANGED <<g, basis_key, a, b, c, res2, run>>

\* The PBW element a*b
Product ==
    /\ op = "init"
    /\ \E lhs \in Monomials(g, MaxLiftDeg) :
         \E rhs \in Monomials(g, MaxLiftDeg - length(lhs)) :
            /\ a' = lhs /\ b' = rhs
            /\ res' = product_on_basis(self, lhs, rhs)
    /\ op' = "product"
    /\ UNCHANGED <<g, basis_key, c, arg, res2, run>>

\* L(res) for the PBW element res
Preimage ==
    /\ op \in {"lift", "product"}
    /\ op' = IF op = "lift" THEN "preimage_of_lift" ELSE "preimage"
    /\ res2' = preimage(self, res)
    /\ UNCHANGED <<g, basis_key, a, b, c, arg, res, run>>

NextLift == Lift \/ Product \/ Preimage

SpecLift == InitIdle /\ [][NextLift]_vars

\* The degree of a nonzero PBW element: the largest degree of its terms.
maximal_degree(f) ==
    CHOOSE d \in {length(m) : m \in DOMAIN f} : \A m \in DOMAIN f : length(m) <= d

\* C10 as stated: the preimage of pbw(x) is x, and the preimage of a PBW
\* element that has a degree other than 1 or is a sum of several terms
\* fails with 'is not in the image'.
C10_Original ==
    /\ op = "preimage_of_lift" => res2 = [ok |-> TRUE, value |-> arg]
    /\ (/\ op \in {"preimage", "preimage_of_lift"}
        /\ res # Zero
        /\ maximal_degree(res) # 1 \/ Cardinality(DOMAIN res) > 1)
       => res2 = ValueError("is not in the image")

\* C10 as amended: the preimage of pbw(x) is x for every Lie algebra element
\* x; the preimage of a PBW element fails with 'is not in the image' exactly
\* when one of its terms has a length other than 1 (as 1 and the product of
\* all generators have), and otherwise it returns the Lie algebra element
\* that pbw maps to it.
C10_PartialInverse ==
    /\ op = "preimage_of_lift" => res2 = [ok |-> TRUE, value |-> arg]
    /\ op \in {"preimage", "preimage_of_lift"} =>
          IF \E m \in DOMAIN res : length(m) # 1
          THEN res2 = ValueError("is not in the image")
          ELSE res2.ok /\ lift(self, res2.value) = res

\* C10 witness: L(pbw(X + Y + Z)) = X + Y + Z in the cross product algebra.
C10_Witness ==
    /\ g = "cross_product" /\ op = "preimage_of_lift"
    /\ arg = (1 :> 1) @@ (2 :> 1) @@ (3 :> 1)
    /\ Cardinality(DOMAIN res) = 3
    /\ res2 = [ok |-> TRUE, value |-> arg]

----------------------------------------------------------------------------
(* group_algebra.py: the constructor GroupAlgebra(G, R).                   *)

\* The objects given to GroupAlgebra in the doctests, with the categories
\* they belong to.
Objects ==
    { [name |-> "1",                    magma |-> FALSE, additive_magma |-> FALSE, ring |-> FALSE],
      [name |-> "DihedralGroup(3)",     magma |-> TRUE,  additive_magma |-> FALSE, ring |-> FALSE],
      [name |-> "GL(3, GF(7))",         magma |-> TRUE,  additive_magma |-> FALSE, ring |-> FALSE],
      [name |-> "Monoids().example()",  magma |-> TRUE,  additive_magma |-> FALSE, ring |-> FALSE],
      [name |-> "AdditiveCyclic(3)",    magma |-> FALSE, additive_magma |-> TRUE,  ring |-> FALSE],
      [name |-> "Integer Ring",         magma |-> TRUE,  additive_magma |-> TRUE,  ring |-> TRUE],
      [name |-> "Rational Field",       magma |-> TRUE,  additive_magma |-> TRUE,  ring |-> TRUE] }

\* IntegerRing(), the default of R
IntegerRing == CHOOSE o \in Objects : o.name = "Integer Ring"

in_Magmas(x) == x.magma
in_AdditiveMagmas(x) == x.additive_magma
in_Rings(x) == x.ring

\* G.algebra(R)
algebra(G, R) == [G |-> G.name, R |-> R.name]

\* GroupAlgebra with the test of R before the test of G.
GroupAlgebra_ring_first(G, R) ==
    IF ~ in_Rings(R)
    THEN [result |-> ValueError(<<R.name, "is not a ring">>), calls |-> <<>>]
    ELSE IF ~ (in_Magmas(G) \/ in_AdditiveMagmas(G))
    THEN [result |-> ValueError(<<G.name, "is not a magma or additive magma">>),
          calls |-> <<>>]
    ELSE [result |-> [ok |-> TRUE, value |-> algebra(G, R)],
          calls |-> <<algebra(G, R)>>]

\* Lines 110-114: the result of GroupAlgebra(G, R) and the calls of
\* G.algebra(R) that it makes.
GroupAlgebra(G, R) ==
    IF ~ (in_Magmas(G) \/ in_AdditiveMagmas(G))
    THEN [result |-> ValueError(<<G.name, "is not a magma or additive magma">>),
          calls |-> <<>>]
    ELSE IF ~ in_Rings(R)
    THEN [result |-> ValueError(<<R.name, "is not a ring">>), calls |-> <<>>]
    ELSE [result |-> [ok |-> TRUE, value |-> algebra(G, R)],
          calls |-> <<algebra(G, R)>>]

\* No PBW basis is involved; res2 is the sequence of the calls of G.algebra(R)
\* made so far.
InitGroupAlgebra ==
    /\ g = "sl2"
    /\ basis_key = default_key("sl2")
    /\ a = one_basis(self)
    /\ b = one_basis(self)
    /\ c = one_basis(self)
    /\ op = "init"
    /\ arg = <<>>
    /\ res = Zero
    /\ res2 = <<>>
    /\ stack = <<>>
    /\ ninv = 0
    /\ depth = 0

\* One call GroupAlgebra(G, R), or GroupAlgebra(G) with the default of R.
CallGroupAlgebra ==
    /\ Len(res2) < MaxAlgebras
    /\ \E G \in Objects : \E R \in Objects : \E given \in BOOLEAN :
          LET r == GroupAlgebra(G, IF given THEN R ELSE IntegerRing)
          IN  /\ given \/ R = IntegerRing
              /\ arg' = [G |-> G, R |-> R]
              /\ res' = r.result
              /\ res2' = res2 \o r.calls
    /\ op' = "GroupAlgebra"
    /\ UNCHANGED <<g, basis_key, a, b, c, run>>

NextGroupAlgebra == CallGroupAlgebra

SpecGroupAlgebra == InitGroupAlgebra /\ [][NextGroupAlgebra]_vars

\* C11: GroupAlgebra(G, R) raises '<G> is not a magma or additive magma' when
\* G is neither a magma nor an additive magma, whatever R is; otherwise it
\* raises '<R> is not a ring' when R is not a ring; G.algebra(R) is called
\* only, and then once, when both tests pass.
C11_EagerValidation ==
    [][LET G == arg'.G
           R == arg'.R
       IN  IF ~ (G.magma \/ G.additive_magma)
           THEN /\ res' = ValueError(<<G.name, "is not a magma or additive magma">>)
                /\ res2' = res2
           ELSE IF ~ R.ring
           THEN /\ res' = ValueError(<<R.name, "is not a ring">>)
                /\ res2' = res2
           ELSE /\ res' = [ok |-> TRUE, value |-> [G |-> G.name, R |-> R.name]]
                /\ res2' = Append(res2, [G |-> G.name, R |-> R.name])]_vars

\* C11 witness: GroupAlgebra(1, 1), where both tests fail, reports G, after
\* an earlier call has constructed an algebra.
C11_Witness ==
    /\ op = "GroupAlgebra"
    /\ arg.G.name = "1" /\ arg.R.name = "1"
    /\ res = ValueError(<<"1", "is not a magma or additive magma">>)
    /\ Len(res2) = 1

----------------------------------------------------------------------------
(* Properties of one run of product_on_basis, under SpecRun.               *)

\* C6: for lhs, rhs other than the identity with basis_key(last generator of
\* lhs) <= basis_key(first generator of rhs), equal generators included,
\* product_on_basis(lhs, rhs) returns the one term lhs*rhs (exponents of a
\* shared generator added) with coefficient 1, and the commutator branch is
\* not entered: the call returns without a nested call.
C6_NoInversion ==
    (/\ op = "returned"
     /\ a # one_basis(self) /\ b # one_basis(self)
     /\ \A i \in support(a) : \A j \in support(b) : basis_key[i] <= basis_key[j])
    => /\ res = [m \in {[i \in Gens(g) |-> a[i] + b[i]]} |-> 1]
       /\ ninv = 0
       /\ depth = 1

\* C6 witness: E*H times H^2 in sl2 is E*H^3, the generators being equal.
C6_Witness ==
    /\ g = "sl2" /\ basis_key = default_key("sl2") /\ op = "returned"
    /\ a = <<1, 0, 1>> /\ b = <<0, 0, 2>>
    /\ res = (<<1, 0, 3>> :> 1)
    /\ ninv = 0

\* C8: every call product_on_basis(lhs, rhs) that is entered returns.
C8_Terminates == (op = "call") ~> (op = "returned")

\* C8 witness: H^2 * F^2 in sl2 has returned after inversions were resolved
\* in nested calls.
C8_Witness ==
    /\ g = "sl2" /\ basis_key = default_key("sl2") /\ op = "returned"
    /\ a = <<0, 0, 2>> /\ b = <<0, 2, 0>>
    /\ res = (<<0, 2, 2>> :> 1) @@ (<<0, 2, 1>> :> -8) @@ (<<0, 2, 0>> :> 16)
    /\ ninv > 1 /\ depth > 2

\* The number of pairs of a generator of lhs and a generator of rhs, counted
\* with their exponents, that are out of order: basis_key of the first is
\* above basis_key of the second.
out_of_order_pairs(lhs, rhs) ==
    LET P == {p \in Gens(g) \X Gens(g) : basis_key[p[1]] > basis_key[p[2]]}
        RECURSIVE Total(_)
        Total(S) == IF S = {} THEN 0
                    ELSE LET p == CHOOSE q \in S : TRUE
                         IN  lhs[p[1]] * rhs[p[2]] + Total(S \ {p})
    IN  Total(P)

\* C12 as stated: the recursion depth (nested calls below the outermost one)
\* equals the number of inversions resolved, and that number is at most
\* length(lhs) * length(rhs).
C12_Original ==
    op = "returned" => /\ depth - 1 = ninv
                       /\ ninv <= length(a) * length(b)

\* C12 as amended: the recursion depth is at most the number of inversions
\* resolved and is zero exactly when none is resolved; the number of
\* inversions resolved is at least the number of out-of-order pairs of a
\* generator of lhs and one of rhs, and equals it when all brackets of these
\* generators vanish.
C12_RecursionBound ==
    op = "returned" =>
       /\ depth - 1 <= ninv
       /\ ninv = 0 <=> depth = 1
       /\ ninv >= out_of_order_pairs(a, b)
       /\ (\A i \in support(a) : \A j \in support(b) : bracket(g, i, j) = Zero)
             => ninv = out_of_order_pairs(a, b)

\* C12 witness: F*H^2 in sl2 with E < H < F resolves 3 inversions, more than
\* length(F) * length(H^2) = 2, at depth 2 below the outermost call.
C12_Witness ==
    /\ g = "sl2" /\ basis_key = <<1, 3, 2>> /\ op = "returned"
    /\ a = <<0, 1, 0>> /\ b = <<0, 0, 2>>
    /\ ninv = 3 /\ depth = 3
    /\ res = (<<0, 1, 0>> :> 4) @@ (<<0, 1, 1>> :> 4) @@ (<<0, 1, 2>> :> 1)

\* A step in which a call of product_on_basis that has resolved an inversion
\* starts one of its sub-products.
starts_sub_product == Len(stack) >= 1 /\ Len(stack') = Len(stack) + 1

\* C13 as stated: every sub-product that a call starts after it has resolved
\* an inversion is on a word with strictly fewer out-of-order pairs than the
\* word lhs*rhs of the call, and the number is never below zero.
C13_Original ==
    [][starts_sub_product =>
          LET new == stack'[Len(stack')]
          IN  /\ out_of_order_pairs(new.lhs, new.rhs) < out_of_order_pairs(top.lhs, top.rhs)
              /\ out_of_order_pairs(new.lhs, new.rhs) >= 0]_vars

\* C13 as amended: every sub-product that a call starts after it has resolved
\* an inversion is on a word that is shorter than the word lhs*rhs of the
\* call, or has the same length and strictly fewer out-of-order pairs; both
\* numbers are never below zero.
C13_TerminationMeasure ==
    [][starts_sub_product =>
          LET new == stack'[Len(stack')]
              new_length == length(new.lhs) + length(new.rhs)
              top_length == length(top.lhs) + length(top.rhs)
          IN  /\ \/ new_length < top_length
                 \/ /\ new_length = top_length
                    /\ out_of_order_pairs(new.lhs, new.rhs) <
                          out_of_order_pairs(top.lhs, top.rhs)
              /\ new_length >= 0
              /\ out_of_order_pairs(new.lhs, new.rhs) >= 0]_vars

\* C13 witness: in sl2 with H < E < F the call E^2*F times E, on a word with
\* one out-of-order pair, has started E^2 times H for the term H of [F, E],
\* on a shorter word with two out-of-order pairs.
C13_Witness ==
    /\ g = "sl2" /\ basis_key = <<2, 3, 1>> /\ op = "call"
    /\ Len(stack) = 2
    /\ stack[1].lhs = <<2, 1, 0>> /\ stack[1].rhs = <<1, 0, 0>>
    /\ stack[2].lhs = <<2, 0, 0>> /\ stack[2].rhs = <<0, 0, 1>>
    /\ stack[2].phase = "enter"
    /\ out_of_order_pairs(stack[1].lhs, stack[1].rhs) = 1
    /\ out_of_order_pairs(stack[2].lhs, stack[2].rhs) = 2

----------------------------------------------------------------------------
(* Properties of the multiplication, under Spec.                           *)

\* The generator indexed by a monomial of length 1.
gen_of(m) == CHOOSE i \in DOMAIN m : m[i] = 1

one == one_basis(self)

\* The words of the doctests: E, F, H of sl2 under the default order.
Sl2Default == g = "sl2" /\ basis_key = default_key("sl2")

\* C1: for distinct generators x, y with basis_key(x) > basis_key(y),
\* product_on_basis(x, y) is the monomial y*x with coefficient 1 plus the
\* bracket [x, y] of the Lie algebra, and for any two distinct generators
\* x*y - y*x is the bracket [x, y], coefficient by coefficient.
C1_CommutationRule ==
    (length(a) = 1 /\ length(b) = 1 /\ a # b) =>
        LET x == gen_of(a)
            y == gen_of(b)
            xy == [t \in DOMAIN bracket(g, x, y) |-> gen(g, t)]
            br == [m \in {xy[t] : t \in DOMAIN xy} |->
                     bracket(g, x, y)[CHOOSE t \in DOMAIN xy : xy[t] = m]]
        IN  /\ (op = "product_on_basis" /\ basis_key[x] > basis_key[y]) =>
                   /\ Coef(res, MonoidMul(b, a)) = 1
                   /\ \A m \in DOMAIN br : Coef(res, m) = br[m]
                   /\ DOMAIN res = {MonoidMul(b, a)} \cup DOMAIN br
            /\ op = "commutator" => res = br

\* C1 witness: F*E = E*F - H in sl2 with E < F < H.
C1_Witness ==
    /\ Sl2Default /\ op = "product_on_basis"
    /\ a = <<0, 1, 0>> /\ b = <<1, 0, 0>>
    /\ res = (<<1, 1, 0>> :> 1) @@ (<<0, 0, 1>> :> -1)

\* C2: multiplication is associative: (a*b)*c = a*(b*c) as linear
\* combinations, with equal coefficient on every monomial.
C2_Associative == op = "associate" => res = res2

\* C2 witness: H*F*E = E*F*H - H^2 in sl2, both ways of bracketing.
C2_Witness ==
    /\ Sl2Default /\ op = "associate"
    /\ a = <<0, 0, 1>> /\ b = <<0, 1, 0>> /\ c = <<1, 0, 0>>
    /\ res = (<<1, 1, 1>> :> 1) @@ (<<0, 0, 2>> :> -1)
    /\ res2 = res

\* C3: every monomial of product_on_basis(a, b) has degree at most
\* degree_on_basis(a) + degree_on_basis(b).
C3_DegreeBound ==
    op = "product_on_basis" =>
        \A m \in DOMAIN res :
            degree_on_basis(self, m) <= degree_on_basis(self, a) + degree_on_basis(self, b)

\* C3 witness: a product with terms of degree 4, 3 and 2 from operands of
\* degree 2: H^2 * F^2 = F^2*H^2 - 8*F^2*H + 16*F^2 in sl2.
C3_Witness ==
    /\ Sl2Default /\ op = "product_on_basis"
    /\ a = <<0, 0, 2>> /\ b = <<0, 2, 0>>
    /\ res = (<<0, 2, 2>> :> 1) @@ (<<0, 2, 1>> :> -8) @@ (<<0, 2, 0>> :> 16)

\* C4: the product of monomials (and of generators taken in the order of
\* a, b, c) holds the commutative product of its factors with coefficient
\* exactly 1, and every other term has a strictly smaller degree.
C4_LeadingTerm ==
    /\ op = "product_on_basis" =>
          /\ Coef(res, MonoidMul(a, b)) = 1
          /\ \A m \in DOMAIN res :
                m # MonoidMul(a, b) => length(m) < length(a) + length(b)
    /\ op = "associate" =>
          LET abc == MonoidMul(MonoidMul(a, b), c)
          IN  /\ Coef(res, abc) = 1
              /\ \A m \in DOMAIN res : m # abc => length(m) < length(abc)

\* C4 witness: a product of generators in decreasing order with lower order
\* terms, H*F*E = E*F*H - H^2 in sl2.
C4_Witness ==
    /\ Sl2Default /\ op = "associate"
    /\ a = <<0, 0, 1>> /\ b = <<0, 1, 0>> /\ c = <<1, 0, 0>>
    /\ Coef(res, <<1, 1, 1>>) = 1
    /\ Cardinality(DOMAIN res) = 2

\* C5: product_on_basis(a, 1) and product_on_basis(1, a) are the single
\* term a with coefficient 1, for every monomial a and for a = 1 too.
C5_Identity ==
    op = "product_on_basis" =>
        /\ b = one => res = (a :> 1)
        /\ a = one => res = (b :> 1)

\* C5 witness: 1 * (E*H) and 1 * 1.
C5_Witness ==
    /\ Sl2Default /\ op = "product_on_basis"
    /\ a = one /\ b = <<1, 0, 1>> /\ res = (b :> 1)

====
